---- MODULE Spec2Model ----
(***************************************************************************)
(* Recipe recommender: ingredient normalization (utils/preprocessing.py),  *)
(* overlap scoring, rule-based filtering, candidate selection and recipe   *)
(* scoring (recommender.py), and the Gemini generation wrapper             *)
(* (ai_engine.py).                                                         *)
(*                                                                         *)
(* Python strings are sequences of one-character strings, so that           *)
(* lower(), strip(), split() and the regular expressions act character by  *)
(* character.  Python floats are exact rationals [n, d] with d > 0.        *)
(***************************************************************************)
EXTENDS Integers, Sequences, FiniteSets, TLC

VARIABLES
    pc,                 \* position of the caller: "start", then one value per call made
    ingredients_text,   \* normalize_ingredients: the argument
    unique_ingredients, \* normalize_ingredients: the returned list
    recipes_df,         \* filter_recipes: the catalog (sequence of rows)
    user_ingredients,   \* filter_recipes / score_recipe / overlap: the user's list
    max_cooking_time,   \* filter_recipes: argument
    meal_type,          \* filter_recipes: argument
    cuisine,            \* filter_recipes: argument
    min_overlap,        \* filter_recipes: argument (a fraction)
    filtered,           \* filter_recipes: the returned frame
    top_n,              \* get_top_candidates: argument
    candidates,         \* get_top_candidates: the returned list
    recipe,             \* score_recipe / calculate_ingredient_overlap: the recipe
    cooking_time_limit, \* score_recipe: argument
    recipe_ing_list,    \* calculate_ingredient_overlap: its local list of pieces
    list_models,        \* ai_engine: what genai.list_models() does
    model_name,         \* ai_engine: the model get_available_model() picked
    response,           \* ai_engine: what model.generate_content() does
    ret                 \* outcome of the last call: a return value or a raised exception

vars == <<pc, ingredients_text, unique_ingredients, recipes_df, user_ingredients,
          max_cooking_time, meal_type, cuisine, min_overlap, filtered, top_n,
          candidates, recipe, cooking_time_limit, recipe_ing_list, list_models,
          model_name, response, ret>>

normVars == <<ingredients_text, unique_ingredients>>
filterVars == <<recipes_df, max_cooking_time, meal_type, cuisine, min_overlap,
                filtered, top_n, candidates>>
scoreVars == <<recipe, cooking_time_limit, recipe_ing_list>>
aiVars == <<list_models, model_name, response>>

\* The value of a variable that a run does not use.
Unused == "unused"

\* Outcomes of a call.
Return(v) == [kind |-> "return", value |-> v]
Raise(exc) == [kind |-> "raise", exc |-> exc]

-----------------------------------------------------------------------------
(* Python str primitives                                                   *)

ascii_uppercase == <<"A","B","C","D","E","F","G","H","I","J","K","L","M","N","O","P","Q","R","S","T","U","V","W","X","Y","Z">>
ascii_lowercase == <<"a","b","c","d","e","f","g","h","i","j","k","l","m","n","o","p","q","r","s","t","u","v","w","x","y","z">>
digits == <<"0","1","2","3","4","5","6","7","8","9">>

Range(s) == {s[i] : i \in 1..Len(s)}

\* Characters matched by \s and removed by str.strip().
Whitespace == {" ", "\t", "\n", "\r", "\f"}

\* str.lower() on one character: the lowercase letter of each uppercase one.
LowerOf ==
    [c \in Range(ascii_uppercase) |->
        ascii_lowercase[CHOOSE i \in 1..Len(ascii_uppercase) : ascii_uppercase[i] = c]]
lower_char(c) == IF c \in DOMAIN LowerOf THEN LowerOf[c] ELSE c

\* str.lower()
lower(s) == [i \in 1..Len(s) |-> lower_char(s[i])]

\* str.strip(): drop leading and trailing whitespace.
strip(s) ==
    LET keep == {i \in 1..Len(s) : s[i] \notin Whitespace}
    IN  IF keep = {} THEN <<>>
        ELSE SubSeq(s, CHOOSE i \in keep : \A j \in keep : i <= j,
                       CHOOSE i \in keep : \A j \in keep : j <= i)

\* str.split(sep) / re.split('[seps]', s) for one-character separators:
\* always at least one piece, empty pieces kept.
RECURSIVE split(_, _)
split(s, seps) ==
    LET cut == {i \in 1..Len(s) : s[i] \in seps}
    IN  IF cut = {} THEN <<s>>
        ELSE LET i == CHOOSE k \in cut : \A j \in cut : k <= j
             IN  <<SubSeq(s, 1, i - 1)>> \o split(SubSeq(s, i + 1, Len(s)), seps)

\* re.sub(r'\s+', ' ', s): every maximal run of whitespace becomes one space.
RECURSIVE collapse_whitespace(_)
collapse_whitespace(s) ==
    IF s = <<>> THEN <<>>
    ELSE IF Head(s) \in Whitespace
         THEN IF Len(s) > 1 /\ s[2] \in Whitespace
              THEN collapse_whitespace(Tail(s))
              ELSE <<" ">> \o collapse_whitespace(Tail(s))
         ELSE <<Head(s)>> \o collapse_whitespace(Tail(s))

KeptChars == Range(ascii_lowercase) \cup Range(digits) \cup Whitespace
KeptChar(c) == c \in KeptChars

\* re.sub(r'[^a-z0-9\s]', '', s): drop every other character.
remove_special(s) == SelectSeq(s, KeptChar)

\* Concatenation of a sequence of strings.
RECURSIVE Concat(_)
Concat(ss) == IF ss = <<>> THEN <<>> ELSE Head(ss) \o Concat(Tail(ss))

\* All sequences over S of length at most n.
SeqsUpTo(S, n) == UNION {[1..k -> S] : k \in 0..n}

-----------------------------------------------------------------------------
(* utils/preprocessing.py                                                  *)

\* INGREDIENT_ALIASES in insertion order: <<canonical, aliases>>.
INGREDIENT_ALIASES == <<
    <<<<"t","o","m","a","t","o">>, <<<<"t","o","m","a","t","o","e","s">>, <<"t","o","m","a","t","o","e">>, <<"t","a","m","a","t","a","r">>>>>>,
    <<<<"o","n","i","o","n">>, <<<<"o","n","i","o","n","s">>, <<"p","y","a","z">>>>>>,
    <<<<"g","a","r","l","i","c">>, <<<<"g","a","r","l","i","c","s">>, <<"l","a","h","s","u","n">>>>>>,
    <<<<"g","i","n","g","e","r">>, <<<<"g","i","n","g","e","r","s">>, <<"a","d","r","a","k">>>>>>,
    <<<<"c","h","i","c","k","e","n">>, <<<<"c","h","i","c","k","e","n","s">>, <<"m","u","r","g","i">>, <<"m","u","r","g","h">>>>>>,
    <<<<"r","i","c","e">>, <<<<"r","i","c","e","s">>, <<"b","a","s","m","a","t","i">>, <<"j","a","s","m","i","n","e">>>>>>,
    <<<<"o","i","l">>, <<<<"o","i","l","s">>, <<"g","h","e","e">>, <<"b","u","t","t","e","r">>>>>>,
    <<<<"s","a","l","t">>, <<<<"s","a","l","t","s">>, <<"n","a","m","a","k">>>>>>,
    <<<<"p","e","p","p","e","r">>, <<<<"p","e","p","p","e","r","s">>, <<"b","l","a","c","k"," ","p","e","p","p","e","r">>, <<"k","a","l","i"," ","m","i","r","c","h">>>>>>,
    <<<<"c","u","m","i","n">>, <<<<"c","u","m","i","n","s">>, <<"j","e","e","r","a">>>>>>,
    <<<<"c","o","r","i","a","n","d","e","r">>, <<<<"c","i","l","a","n","t","r","o">>, <<"d","h","a","n","i","a">>>>>>,
    <<<<"t","u","r","m","e","r","i","c">>, <<<<"h","a","l","d","i">>>>>>,
    <<<<"c","h","i","l","i">>, <<<<"c","h","i","l","i","e","s">>, <<"r","e","d"," ","c","h","i","l","i">>, <<"l","a","l"," ","m","i","r","c","h">>>>>>,
    <<<<"m","i","l","k">>, <<<<"m","i","l","k","s">>, <<"d","o","o","d","h">>>>>>,
    <<<<"y","o","g","u","r","t">>, <<<<"y","o","g","h","u","r","t">>, <<"c","u","r","d">>, <<"d","a","h","i">>>>>>,
    <<<<"f","l","o","u","r">>, <<<<"f","l","o","u","r","s">>, <<"m","a","i","d","a">>>>>>,
    <<<<"s","u","g","a","r">>, <<<<"s","u","g","a","r","s">>, <<"c","h","e","e","n","i">>>>>>,
    <<<<"w","a","t","e","r">>, <<<<"w","a","t","e","r","s">>>>>>,
    <<<<"l","e","m","o","n">>, <<<<"l","e","m","o","n","s">>, <<"l","i","m","e">>, <<"n","i","m","b","u">>>>>>,
    <<<<"p","o","t","a","t","o">>, <<<<"p","o","t","a","t","o","e","s">>, <<"a","l","o","o">>>>>>,
    <<<<"c","a","r","r","o","t">>, <<<<"c","a","r","r","o","t","s">>, <<"g","a","j","a","r">>>>>>,
    <<<<"s","p","i","n","a","c","h">>, <<<<"s","p","i","n","a","c","h","e","s">>, <<"p","a","l","a","k">>>>>>,
    <<<<"g","r","e","e","n"," ","b","e","a","n","s">>, <<<<"b","e","a","n","s">>, <<"s","t","r","i","n","g"," ","b","e","a","n","s">>, <<"l","o","b","i","y","a">>>>>>,
    <<<<"b","e","l","l"," ","p","e","p","p","e","r">>, <<<<"c","a","p","s","i","c","u","m">>, <<"s","i","m","l","a"," ","m","i","r","c","h">>>>>>,
    <<<<"m","u","s","h","r","o","o","m">>, <<<<"m","u","s","h","r","o","o","m","s">>, <<"k","h","u","m","b","h">>>>>>,
    <<<<"p","e","a","s">>, <<<<"g","r","e","e","n"," ","p","e","a","s">>, <<"m","a","t","a","r">>>>>>,
    <<<<"p","a","n","e","e","r">>, <<<<"c","o","t","t","a","g","e"," ","c","h","e","e","s","e">>, <<"i","n","d","i","a","n"," ","c","h","e","e","s","e">>>>>>,
    <<<<"l","e","n","t","i","l","s">>, <<<<"d","a","l">>, <<"d","a","a","l">>, <<"l","e","n","s">>>>>>,
    <<<<"c","h","i","c","k","p","e","a","s">>, <<<<"c","h","a","n","a">>, <<"g","a","r","b","a","n","z","o">>>>>> >>

\* Lines 54-61: lowercase and strip, collapse whitespace, drop special characters.
clean(ingredient) ==
    remove_special(collapse_whitespace(strip(lower(ingredient))))

\* s contains t as a contiguous substring (Python: t in s).
Contains(s, t) ==
    \E i \in 1..(Len(s) - Len(t) + 1) : SubSeq(s, i, i + Len(t) - 1) = t

\* A lookup that matches when the name merely occurs inside the text.
alias_match_substring(normalized, canonical, aliases) ==
    \/ Contains(normalized, canonical)
    \/ \E k \in 1..Len(aliases) : Contains(normalized, aliases[k])

\* Line 68: alias.lower(), for every alias of the table.
LOWERED_ALIASES ==
    [i \in 1..Len(INGREDIENT_ALIASES) |->
        [k \in 1..Len(INGREDIENT_ALIASES[i][2]) |-> lower(INGREDIENT_ALIASES[i][2][k])]]

\* Lines 65-69: the test made for one entry of the table (aliases lowered).
alias_match(normalized, canonical, aliases) ==
    \/ normalized = canonical
    \/ \E k \in 1..Len(aliases) : normalized = aliases[k]

\* normalize_ingredient: the first entry, in table order, that matches wins.
normalize_ingredient(ingredient) ==
    LET normalized == clean(ingredient)
        hits == {i \in 1..Len(INGREDIENT_ALIASES) :
                    alias_match(normalized, INGREDIENT_ALIASES[i][1], LOWERED_ALIASES[i])}
    IN  IF hits = {} THEN normalized
        ELSE INGREDIENT_ALIASES[CHOOSE i \in hits : \A j \in hits : i <= j][1]

\* Lines 86-93: split on comma or newline, skip blank fragments, normalize each.
normalized_list(text) ==
    LET raw_ingredients == split(text, {",", "\n"})
        kept == SelectSeq(raw_ingredients, LAMBDA ing : strip(ing) # <<>>)
    IN  [i \in 1..Len(kept) |-> normalize_ingredient(kept[i])]

\* A deduplication loop that forgets to test the seen set.
RECURSIVE remove_duplicates_unchecked(_, _)
remove_duplicates_unchecked(normalized, seen) ==
    IF normalized = <<>> THEN <<>>
    ELSE LET ing == Head(normalized)
         IN  IF ing # <<>>
             THEN <<ing>> \o remove_duplicates_unchecked(Tail(normalized), seen \cup {ing})
             ELSE remove_duplicates_unchecked(Tail(normalized), seen)

\* Lines 96-101: keep a token when it is non-empty and not yet seen.
RECURSIVE remove_duplicates(_, _)
remove_duplicates(normalized, seen) ==
    IF normalized = <<>> THEN <<>>
    ELSE LET ing == Head(normalized)
         IN  IF ing # <<>> /\ ing \notin seen
             THEN <<ing>> \o remove_duplicates(Tail(normalized), seen \cup {ing})
             ELSE remove_duplicates(Tail(normalized), seen)

normalize_ingredients(text) == remove_duplicates(normalized_list(text), {})

\* Raw texts: up to MaxFields fields written one after the other, with a
\* comma or a newline between two fields.
MaxFields == 3
Fields == {<<"T","o","m","a","t","o","e","s">>, <<"t","o","m","a","t","o">>, <<" ","P","y","a","z">>, <<"r","e","d"," ","o","n","i","o","n">>, <<"B","l","a","c","k"," ","\t","P","e","p","p","e","r">>,
           <<"-"," ","t","o","m","a","t","o">>, <<"t","o","m","a","t","o"," ","&"," ","P","y","a","z">>, <<"E","x","t","r","a","-","V","i","r","g","i","n"," ","O","i","l"," ","2">>, <<"!","!">>, <<" ">>, <<>>}
SeparatorPatterns == {<<",">>, <<"\n">>, <<",", "\n">>}

RECURSIVE Join(_, _, _)
Join(fields, pattern, i) ==
    IF i > Len(fields) THEN <<>>
    ELSE IF i = Len(fields) THEN fields[i]
    ELSE fields[i] \o <<pattern[((i - 1) % Len(pattern)) + 1]>> \o Join(fields, pattern, i + 1)

IngredientTexts ==
    {Join(fs, sp, 1) : fs \in SeqsUpTo(Fields, MaxFields), sp \in SeparatorPatterns}

-----------------------------------------------------------------------------
(* Exact arithmetic for Python's float results                             *)

Abs(x) == IF x < 0 THEN -x ELSE x

RECURSIVE GCD(_, _)
GCD(a, b) == IF b = 0 THEN a ELSE GCD(b, a % b)

\* The rational n/d (d # 0) in lowest terms with a positive denominator.
Rat(n, d) ==
    LET g == GCD(Abs(n), Abs(d))
        s == IF d < 0 THEN -1 ELSE 1
    IN  [n |-> (s * n) \div g, d |-> (s * d) \div g]

Int2Rat(k) == [n |-> k, d |-> 1]
RatAdd(a, b) == Rat(a.n * b.d + b.n * a.d, a.d * b.d)
RatSub(a, b) == Rat(a.n * b.d - b.n * a.d, a.d * b.d)
RatMul(a, b) == Rat(a.n * b.n, a.d * b.d)
RatLe(a, b) == a.n * b.d <= b.n * a.d
RatMin(a, b) == IF RatLe(a, b) THEN a ELSE b
RatMax(a, b) == IF RatLe(a, b) THEN b ELSE a

-----------------------------------------------------------------------------
(* recommender.py                                                          *)

\* Line 17: the recipe's pieces, each stripped and lowercased.
ingredient_pieces(recipe_ingredients) ==
    LET raw == split(recipe_ingredients, {","})
    IN  [i \in 1..Len(raw) |-> lower(strip(raw[i]))]

\* Line 23: how many pieces are in the user's set.
count_matches(pieces, user) ==
    Cardinality({i \in 1..Len(pieces) : pieces[i] \in Range(user)})

\* calculate_ingredient_overlap
calculate_ingredient_overlap(recipe_ingredients, user) ==
    LET pieces == ingredient_pieces(recipe_ingredients)
    IN  IF Len(pieces) = 0 THEN Int2Rat(0)
        ELSE RatMul(Rat(count_matches(pieces, user), Len(pieces)), Int2Rat(100))

\* Line 62
by_cooking_time(df, max_time) ==
    SelectSeq(df, LAMBDA r : r.cooking_time <= max_time)

\* Line 65
by_meal_type(df, meal) ==
    SelectSeq(df, LAMBDA r : lower(r.meal_type) = lower(meal))

\* A cuisine filter that keeps every row.
by_cuisine_skipped(df, cuis) == df

\* Line 68
by_cuisine(df, cuis) ==
    SelectSeq(df, LAMBDA r : lower(r.cuisine) = lower(cuis))

\* Lines 71-73: the new column.
with_overlap(df, user) ==
    [i \in 1..Len(df) |->
        [recipe_name |-> df[i].recipe_name, ingredients |-> df[i].ingredients,
         cooking_time |-> df[i].cooking_time, meal_type |-> df[i].meal_type,
         cuisine |-> df[i].cuisine, instructions |-> df[i].instructions,
         ingredient_overlap |-> calculate_ingredient_overlap(df[i].ingredients, user)]]

\* Line 76
by_overlap(df, minimum) ==
    SelectSeq(df, LAMBDA r : RatLe(RatMul(minimum, Int2Rat(100)), r.ingredient_overlap))

\* The orderings of df.
Orderings(df) ==
    LET n == Len(df)
        perms == {p \in [1..n -> 1..n] : \A i, j \in 1..n : i # j => p[i] # p[j]}
    IN  {[i \in 1..n |-> df[p[i]]] : p \in perms}

\* A sort in ascending order.
sort_values_ascending(df) ==
    {s \in Orderings(df) :
        \A i \in 1..(Len(s) - 1) :
            RatLe(s[i].ingredient_overlap, s[i + 1].ingredient_overlap)}

\* Line 79: sort_values('ingredient_overlap', ascending=False).  The sort is
\* not stable (pandas' default kind is quicksort), so rows of equal overlap
\* may come out in any order: every descending ordering is a possible result.
sort_values(df) ==
    {s \in Orderings(df) :
        \A i \in 1..(Len(s) - 1) :
            RatLe(s[i + 1].ingredient_overlap, s[i].ingredient_overlap)}

\* filter_recipes: the set of frames it may return.
filter_recipes(df, user, max_time, meal, cuis, minimum) ==
    sort_values(
        by_overlap(
            with_overlap(by_cuisine(by_meal_type(by_cooking_time(df, max_time), meal), cuis),
                         user),
            minimum))

\* DataFrame.tail(n), n >= 0.
tail(df, n) == IF n >= Len(df) THEN df ELSE SubSeq(df, Len(df) - n + 1, Len(df))

\* DataFrame.head(n): the first n rows; for n < 0, all rows but the last -n.
head(df, n) ==
    IF n >= Len(df) THEN df
    ELSE IF n >= 0 THEN SubSeq(df, 1, n)
    ELSE IF Len(df) + n > 0 THEN SubSeq(df, 1, Len(df) + n)
    ELSE <<>>

\* Lines 107-115: the plain dictionary made of one row (the frame
\* filter_recipes returns always has the ingredient_overlap column, so the
\* default 0 of row.get is not taken).
candidate_of(row) ==
    [recipe_name |-> row.recipe_name, ingredients |-> row.ingredients,
     cooking_time |-> row.cooking_time, meal_type |-> row.meal_type,
     cuisine |-> row.cuisine, instructions |-> row.instructions,
     ingredient_overlap |-> row.ingredient_overlap]

\* get_top_candidates (user_ingredients is not read by the code)
get_top_candidates(df, user, n) ==
    LET top_recipes == head(df, n)
    IN  [i \in 1..Len(top_recipes) |-> candidate_of(top_recipes[i])]

\* A time term that rewards the fraction of the budget used.
time_score_rewarding(cooking_time, limit) ==
    LET time_efficiency == RatMul(Rat(cooking_time, limit), Int2Rat(100))
    IN  RatMul(RatMax(Int2Rat(0), time_efficiency), Rat(3, 10))

\* Lines 146-147, for limit # 0.
time_score(cooking_time, limit) ==
    LET time_efficiency == RatMul(Rat(cooking_time, limit), Int2Rat(100))
    IN  RatMul(RatMax(Int2Rat(0), RatSub(Int2Rat(100), time_efficiency)), Rat(3, 10))

\* score_recipe: the division of line 146 raises when the limit is 0.
score_recipe(r, user, limit) ==
    LET ingredient_overlap == calculate_ingredient_overlap(r.ingredients, user)
        ingredient_score == RatMul(RatMin(ingredient_overlap, Int2Rat(100)), Rat(4, 10))
        base_score == Int2Rat(30)
    IN  IF limit = 0 THEN Raise("ZeroDivisionError")
        ELSE LET total_score ==
                     RatAdd(RatAdd(ingredient_score, time_score(r.cooking_time, limit)),
                            base_score)
             IN  Return(RatMin(total_score, Int2Rat(100)))

-----------------------------------------------------------------------------
(* ai_engine.py                                                            *)
(*                                                                         *)
(* The text of a response is a sequence of lexical tokens: the markdown    *)
(* fence, the word json, whitespace, prose, and the tokens of JSON ("[",   *)
(* "]", ",", a number, and objects named by the keys they carry).          *)
(* API_KEY is truthy in every call: the module raises at import otherwise  *)
(* (lines 8-9), so the checks of lines 52 and 133 never fire.              *)

\* The markdown code fence (three backquotes).
FENCE == "fence"

REQUIRED_KEYS == {"recipe_name", "ingredients", "cooking_time", "instructions"}

\* The JSON objects a response may hold, by the keys they carry.
ObjectKeys(tok) ==
    CASE tok = "obj_full" -> REQUIRED_KEYS \cup {"meal_type", "cuisine", "reason"}
      [] tok = "obj_noreason" -> REQUIRED_KEYS \cup {"meal_type", "cuisine"}
      [] tok = "obj_partial" -> {"recipe_name", "ingredients"}
ObjectTokens == {"obj_full", "obj_noreason", "obj_partial"}

\* Python values: None, a dict (its keys), a number, a list (its items).
Value(t, keys, items) == [t |-> t, keys |-> keys, items |-> items]
PyNone == Value("None", {}, <<>>)
PyDict(keys) == Value("dict", keys, <<>>)
PyNum == Value("num", {}, <<>>)
PyList(items) == Value("list", {}, items)

Failed == [ok |-> FALSE, value |-> PyNone, next |-> 0]

\* json.loads on tokens: one value, or "[" value ("," value)* "]", or "[" "]".
RECURSIVE ParseValue(_, _)
RECURSIVE ParseItems(_, _, _)
ParseValue(s, i) ==
    IF i > Len(s) THEN Failed
    ELSE IF s[i] \in ObjectTokens
         THEN [ok |-> TRUE, value |-> PyDict(ObjectKeys(s[i])), next |-> i + 1]
    ELSE IF s[i] = "num"
         THEN [ok |-> TRUE, value |-> PyNum, next |-> i + 1]
    ELSE IF s[i] = "["
         THEN IF i + 1 <= Len(s) /\ s[i + 1] = "]"
              THEN [ok |-> TRUE, value |-> PyList(<<>>), next |-> i + 2]
              ELSE ParseItems(s, i + 1, <<>>)
    ELSE Failed
ParseItems(s, i, acc) ==
    LET v == ParseValue(s, i)
    IN  IF ~v.ok \/ v.next > Len(s) THEN Failed
        ELSE IF s[v.next] = ","
             THEN ParseItems(s, v.next + 1, Append(acc, v.value))
        ELSE IF s[v.next] = "]"
             THEN [ok |-> TRUE, value |-> PyList(Append(acc, v.value)), next |-> v.next + 1]
        ELSE Failed

\* json.loads: whitespace between tokens is skipped; anything left after
\* the value is "Extra data".  ok = FALSE stands for json.JSONDecodeError.
json_loads(text) ==
    LET s == SelectSeq(text, LAMBDA tok : tok # "ws")
        v == ParseValue(s, 1)
    IN  IF v.ok /\ v.next = Len(s) + 1 THEN v ELSE Failed

\* str.strip() on tokens.
strip_tokens(text) ==
    LET keep == {i \in 1..Len(text) : text[i] # "ws"}
    IN  IF keep = {} THEN <<>>
        ELSE SubSeq(text, CHOOSE i \in keep : \A j \in keep : i <= j,
                          CHOOSE i \in keep : \A j \in keep : j <= i)

\* text.split(FENCE)
RECURSIVE split_fence(_)
split_fence(text) ==
    LET cut == {i \in 1..Len(text) : text[i] = FENCE}
    IN  IF cut = {} THEN <<text>>
        ELSE LET i == CHOOSE k \in cut : \A j \in cut : k <= j
             IN  <<SubSeq(text, 1, i - 1)>> \o split_fence(SubSeq(text, i + 1, Len(text)))

\* Lines 92-93 and 195-196: drop a leading "json".
drop_json_tag(text) ==
    IF text # <<>> /\ Head(text) = "json" THEN Tail(text) ELSE text

\* get_available_model: the first model that supports generateContent, and
\* "gemini-pro" when there is none or when listing raises (lines 26-30).
get_available_model(models) ==
    IF models = "found" THEN "gemini-1.5-flash" ELSE "gemini-pro"

\* Lines 99-101 and 216-218: a dict with the required keys, "reason" filled in.
HasRequiredKeys(v) == REQUIRED_KEYS \subseteq v.keys
with_reason(v) == PyDict(v.keys \cup {"reason"})

ParseError == Raise("Exception: Failed to parse Gemini response")
ApiError == Raise("Exception: Gemini API error")

\* generate_recipe_with_gemini, lines 75-109.  resp.kind = "raises" is an
\* exception out of generate_content or out of response.text.
generate_recipe_with_gemini(resp) ==
    IF resp.kind = "raises" THEN ApiError
    ELSE IF resp.text = <<>> THEN Return(PyNone)
    ELSE LET stripped == strip_tokens(resp.text)
             unfenced == IF stripped # <<>> /\ Head(stripped) = FENCE
                         THEN drop_json_tag(split_fence(stripped)[2])
                         ELSE stripped
             parsed == json_loads(strip_tokens(unfenced))
             result == parsed.value
         IN  IF ~parsed.ok THEN ParseError
             ELSE IF result.t \in {"num", "None"} THEN ApiError  \* TypeError at line 99
             ELSE IF result.t = "dict" /\ HasRequiredKeys(result)
                  THEN Return(with_reason(result))
             ELSE Return(PyNone)

\* Index of the first / the last token tok in text, 0 when absent
\* (str.find and str.rfind return -1).
find(text, tok) ==
    LET hit == {i \in 1..Len(text) : text[i] = tok}
    IN  IF hit = {} THEN 0 ELSE CHOOSE i \in hit : \A j \in hit : i <= j
rfind(text, tok) ==
    LET hit == {i \in 1..Len(text) : text[i] = tok}
    IN  IF hit = {} THEN 0 ELSE CHOOSE i \in hit : \A j \in hit : j <= i

\* generate_multiple_recipes, lines 177-228.
generate_multiple_recipes(resp) ==
    IF resp.kind = "raises" THEN ApiError
    ELSE IF resp.text = <<>> THEN Return(PyNone)
    ELSE LET stripped == strip_tokens(resp.text)
             unfenced == IF FENCE \in Range(stripped)
                         THEN drop_json_tag(split_fence(stripped)[2])
                         ELSE stripped
             response_text == strip_tokens(unfenced)
             start_idx == find(response_text, "[")
             end_idx == rfind(response_text, "]")
             json_str == IF start_idx # 0 /\ end_idx # 0 /\ end_idx > start_idx
                         THEN SubSeq(response_text, start_idx, end_idx)
                         ELSE response_text
             parsed == json_loads(json_str)
             results == parsed.value
         IN  IF ~parsed.ok THEN ParseError
             ELSE IF results.t = "list" /\ Len(results.items) > 0
                  THEN IF \E i \in 1..Len(results.items) :
                              results.items[i].t \in {"num", "None"}
                       THEN ApiError  \* TypeError at line 216
                       ELSE LET recipes == SelectSeq(results.items,
                                    LAMBDA v : v.t = "dict" /\ HasRequiredKeys(v))
                            IN  IF recipes # <<>>
                                THEN Return(PyList([i \in 1..Len(recipes) |->
                                                       with_reason(recipes[i])]))
                                ELSE Return(PyNone)
             ELSE Return(PyNone)

-----------------------------------------------------------------------------
(* Inputs                                                                  *)

Row(name, ingredients, time, meal, cuis) ==
    [recipe_name |-> name, ingredients |-> ingredients, cooking_time |-> time,
     meal_type |-> meal, cuisine |-> cuis, instructions |-> "Cook and serve."]

\* Rows a catalog may hold.
CatalogRows == {
    Row("Marinara", <<"t","o","m","a","t","o",","," ","o","n","i","o","n",","," ","g","a","r","l","i","c">>, 25, <<"D","i","n","n","e","r">>, <<"I","t","a","l","i","a","n">>),
    Row("Bruschetta", <<"T","o","m","a","t","o",",","O","n","i","o","n">>, 30, <<"d","i","n","n","e","r">>, <<"I","T","A","L","I","A","N">>),
    Row("Slow ragu", <<"t","o","m","a","t","o",","," ","o","n","i","o","n">>, 45, <<"D","i","n","n","e","r">>, <<"I","t","a","l","i","a","n">>),
    Row("Panzanella", <<"t","o","m","a","t","o",","," ","o","n","i","o","n">>, 20, <<"L","u","n","c","h">>, <<"I","t","a","l","i","a","n">>),
    Row("Tamatar pyaz", <<"t","o","m","a","t","o",","," ","o","n","i","o","n">>, 20, <<"D","i","n","n","e","r">>, <<"I","n","d","i","a","n">>),
    Row("Aglio e olio", <<"p","a","s","t","a",","," ","g","a","r","l","i","c">>, 10, <<"D","i","n","n","e","r">>, <<"I","t","a","l","i","a","n">>),
    Row("Caprese", <<"t","o","m","a","t","o",","," ","o","n","i","o","n",","," ","g","a","r","l","i","c",","," ","b","a","s","i","l",","," ","s","a","l","t">>, 15, <<"D","I","N","N","E","R">>, <<"i","t","a","l","i","a","n">>) }

MaxCatalog == 2
Catalogs == SeqsUpTo(CatalogRows, MaxCatalog)

\* Lists the normalizer can return.
UserLists == {<<>>, <<<<"t","o","m","a","t","o">>>>, <<<<"t","o","m","a","t","o">>, <<"o","n","i","o","n">>>>,
              <<<<"o","n","i","o","n">>, <<"g","a","r","l","i","c">>, <<"t","o","m","a","t","o">>>>}
MealTypes == {<<"D","i","n","n","e","r">>, <<"L","U","N","C","H">>}
Cuisines == {<<"i","t","a","l","i","a","n">>, <<"I","n","d","i","a","n">>}
TimeBudgets == {20, 30}
MinOverlaps == {Rat(6, 10), Rat(0, 1)}
MaxTopN == 2

\* Recipes and limits handed to the scorer; user lists of any strings.
RecipeIngredients == {<<>>, <<"t","o","m","a","t","o",","," ","o","n","i","o","n",","," ","g","a","r","l","i","c">>, <<"T","o","m","a","t","o",",","O","n","i","o","n">>, <<"p","a","s","t","a">>}
CookingTimes == {5, 10, 20, 30, 45, 60}
TimeLimits == {-30, -10, 0, 10, 30, 60}
ScoreRecipes == [ingredients : RecipeIngredients, cooking_time : CookingTimes]
AnyUserLists == UserLists \cup {<<<<>>>>}

\* Responses of the generation service.
MaxParts == 3
ResponseParts == {
    <<FENCE, "json", "ws">>, <<FENCE>>, <<"ws">>, <<"junk">>,
    <<"obj_full">>, <<"obj_noreason">>, <<"obj_partial">>,
    <<"[", "obj_full", ",", "obj_noreason", "]">>, <<"[", "obj_partial", "]">>,
    <<"[", "]">>, <<"[", "num", "]">>, <<"num">>, <<"[", "obj_full">> }
ResponseTexts == {Concat(ps) : ps \in SeqsUpTo(ResponseParts, MaxParts)}
Responses == {[kind |-> "raises", text |-> <<>>]}
             \cup {[kind |-> "text", text |-> t] : t \in ResponseTexts}

normUnused == ingredients_text = Unused /\ unique_ingredients = Unused
filterUnused ==
    /\ recipes_df = Unused /\ max_cooking_time = Unused /\ meal_type = Unused
    /\ cuisine = Unused /\ min_overlap = Unused /\ filtered = Unused
    /\ top_n = Unused /\ candidates = Unused
scoreUnused == recipe = Unused /\ cooking_time_limit = Unused /\ recipe_ing_list = Unused
aiUnused == list_models = Unused /\ model_name = Unused /\ response = Unused

-----------------------------------------------------------------------------
(* The normalizer                                                          *)

InitNormalize ==
    /\ pc = "start"
    /\ ingredients_text \in IngredientTexts
    /\ unique_ingredients = <<>>
    /\ user_ingredients = Unused /\ ret = Unused
    /\ filterUnused /\ scoreUnused /\ aiUnused

Normalize ==
    /\ pc = "start"
    /\ unique_ingredients' = normalize_ingredients(ingredients_text)
    /\ pc' = "normalized"
    /\ UNCHANGED <<ingredients_text, user_ingredients, ret, filterVars, scoreVars, aiVars>>

NextNormalize == Normalize
SpecNormalize == InitNormalize /\ [][NextNormalize]_vars

-----------------------------------------------------------------------------
(* Filtering and candidate selection                                       *)

InitFilter ==
    /\ pc = "start"
    /\ recipes_df \in Catalogs
    /\ user_ingredients \in UserLists
    /\ max_cooking_time \in TimeBudgets
    /\ meal_type \in MealTypes
    /\ cuisine \in Cuisines
    /\ min_overlap \in MinOverlaps
    /\ filtered = <<>> /\ top_n = 0 /\ candidates = <<>>
    /\ ret = Unused
    /\ normUnused /\ scoreUnused /\ aiUnused

Filter ==
    /\ pc = "start"
    /\ filtered' \in filter_recipes(recipes_df, user_ingredients, max_cooking_time,
                                    meal_type, cuisine, min_overlap)
    /\ pc' = "filtered"
    /\ UNCHANGED <<recipes_df, user_ingredients, max_cooking_time, meal_type, cuisine,
                   min_overlap, top_n, candidates, ret, normVars, scoreVars, aiVars>>

GetTopCandidates ==
    /\ pc = "filtered"
    /\ \E n \in 0..MaxTopN :
         /\ top_n' = n
         /\ candidates' = get_top_candidates(filtered, user_ingredients, n)
    /\ pc' = "selected"
    /\ UNCHANGED <<recipes_df, user_ingredients, max_cooking_time, meal_type, cuisine,
                   min_overlap, filtered, ret, normVars, scoreVars, aiVars>>

NextFilter == Filter \/ GetTopCandidates
SpecFilter == InitFilter /\ [][NextFilter]_vars

-----------------------------------------------------------------------------
(* Overlap and score of one recipe                                         *)

InitScore ==
    /\ pc = "start"
    /\ recipe \in ScoreRecipes
    /\ user_ingredients \in AnyUserLists
    /\ cooking_time_limit \in TimeLimits
    /\ recipe_ing_list = <<>>
    /\ ret = Unused
    /\ normUnused /\ filterUnused /\ aiUnused

CalculateIngredientOverlap ==
    /\ pc = "start"
    /\ recipe_ing_list' = ingredient_pieces(recipe.ingredients)
    /\ ret' = Return(calculate_ingredient_overlap(recipe.ingredients, user_ingredients))
    /\ pc' = "overlap"
    /\ UNCHANGED <<recipe, user_ingredients, cooking_time_limit, normVars, filterVars,
                   aiVars>>

ScoreRecipe ==
    /\ pc = "start"
    /\ recipe_ing_list' = ingredient_pieces(recipe.ingredients)
    /\ ret' = score_recipe(recipe, user_ingredients, cooking_time_limit)
    /\ pc' = "scored"
    /\ UNCHANGED <<recipe, user_ingredients, cooking_time_limit, normVars, filterVars,
                   aiVars>>

NextScore == CalculateIngredientOverlap \/ ScoreRecipe
SpecScore == InitScore /\ [][NextScore]_vars

-----------------------------------------------------------------------------
(* Generation                                                              *)

InitGenerate ==
    /\ pc = "start"
    /\ list_models \in {"raises", "none", "found"}
    /\ model_name = ""
    /\ response \in Responses
    /\ ret = Unused
    /\ user_ingredients = Unused
    /\ normUnused /\ filterUnused /\ scoreUnused

GenerateRecipe ==
    /\ pc = "start"
    /\ model_name' = get_available_model(list_models)
    /\ ret' = generate_recipe_with_gemini(response)
    /\ pc' = "generated_one"
    /\ UNCHANGED <<user_ingredients, normVars, filterVars, scoreVars, list_models, response>>

GenerateMultiple ==
    /\ pc = "start"
    /\ model_name' = get_available_model(list_models)
    /\ ret' = generate_multiple_recipes(response)
    /\ pc' = "generated_many"
    /\ UNCHANGED <<user_ingredients, normVars, filterVars, scoreVars, list_models, response>>

NextGenerate == GenerateRecipe \/ GenerateMultiple
SpecGenerate == InitGenerate /\ [][NextGenerate]_vars

-----------------------------------------------------------------------------
(* Properties of the normalizer (SpecNormalize)                            *)

\* The fragments normalize_ingredients keeps, cleaned but not yet resolved.
CleanedFragments ==
    LET raw == split(ingredients_text, {",", "\n"})
        kept == SelectSeq(raw, LAMBDA ing : strip(ing) # <<>>)
    IN  [i \in 1..Len(kept) |-> clean(kept[i])]

\* Index of the first element of norm equal to tok, 0 when there is none.
FirstOccurrence(norm, tok) ==
    LET at == {i \in 1..Len(norm) : norm[i] = tok}
    IN  IF at = {} THEN 0 ELSE CHOOSE i \in at : \A j \in at : i <= j

\* out is norm without its empty tokens and without repetitions, each token
\* at the rank of its first occurrence.
IsFirstOccurrenceOrder(out, norm) ==
    /\ \A i, j \in 1..Len(out) : i # j => out[i] # out[j]
    /\ \A i \in 1..Len(out) : out[i] # <<>>
    /\ Range(out) = Range(norm) \ {<<>>}
    /\ \A i, j \in 1..Len(out) :
           i < j => FirstOccurrence(norm, out[i]) < FirstOccurrence(norm, out[j])

\* C4: the list returned by normalize_ingredients holds no token twice and no
\* empty token, holds exactly the non-empty canonical tokens of the input, and
\* lists them in the order in which each first occurs in the input.
NoDuplicatesFirstOccurrenceOrder ==
    pc = "normalized" =>
        IsFirstOccurrenceOrder(unique_ingredients, normalized_list(ingredients_text))

\* C4 witness: "Tomatoes" and "tomato" resolve to one entry, placed before "onion".
WitnessDeduplicated ==
    /\ pc = "normalized"
    /\ ingredients_text = <<"T","o","m","a","t","o","e","s",","," ","P","y","a","z","\n","t","o","m","a","t","o">>
    /\ unique_ingredients = <<<<"t","o","m","a","t","o">>, <<"o","n","i","o","n">>>>

\* C5: every returned token is lowercase, made of a-z, 0-9 and space only, has
\* no leading or trailing whitespace and no two consecutive spaces.
TokensAreClean ==
    pc = "normalized" =>
        \A i \in 1..Len(unique_ingredients) :
            LET tok == unique_ingredients[i]
            IN  /\ \A k \in 1..Len(tok) :
                       tok[k] \in Range(ascii_lowercase) \cup Range(digits) \cup {" "}
                /\ tok # <<>> => Head(tok) # " " /\ tok[Len(tok)] # " "
                /\ \A k \in 1..(Len(tok) - 1) : ~(tok[k] = " " /\ tok[k + 1] = " ")

\* The names of entry i of the alias table: its canonical name and its aliases.
AllNames ==
    [i \in 1..Len(INGREDIENT_ALIASES) |->
        {INGREDIENT_ALIASES[i][1]} \cup Range(INGREDIENT_ALIASES[i][2])]
Names(i) == AllNames[i]

\* C6: alias resolution is exact-match.  A cleaned fragment that equals a name
\* of an entry is returned as that entry's canonical name; a fragment that
\* equals no name is returned unchanged; and no other token is returned.
AliasResolutionIsExact ==
    pc = "normalized" =>
        LET cleaned == CleanedFragments
            entries == 1..Len(INGREDIENT_ALIASES)
        IN  /\ \A j \in 1..Len(cleaned) :
                   /\ \A i \in entries :
                          cleaned[j] \in Names(i) =>
                              INGREDIENT_ALIASES[i][1] \in Range(unique_ingredients)
                   /\ (cleaned[j] # <<>> /\ \A i \in entries : cleaned[j] \notin Names(i))
                          => cleaned[j] \in Range(unique_ingredients)
            /\ \A tok \in Range(unique_ingredients) :
                   \E j \in 1..Len(cleaned) :
                       \/ /\ tok = cleaned[j]
                          /\ \A i \in entries : cleaned[j] \notin Names(i)
                       \/ \E i \in entries :
                              cleaned[j] \in Names(i) /\ tok = INGREDIENT_ALIASES[i][1]

\* C6 witness: "Pyaz" became "onion" while "red onion" stayed as it was.
WitnessRedOnionUnchanged ==
    /\ pc = "normalized"
    /\ ingredients_text = <<" ","P","y","a","z",",","r","e","d"," ","o","n","i","o","n">>
    /\ unique_ingredients = <<<<"o","n","i","o","n">>, <<"r","e","d"," ","o","n","i","o","n">>>>

-----------------------------------------------------------------------------
(* Properties of filtering and selection (SpecFilter)                      *)

\* C1: every record filter_recipes returns satisfies the four predicates:
\* cooking_time <= max_cooking_time, meal_type and cuisine equal to the
\* query's up to case, and annotated overlap >= min_overlap * 100.
FilteredSatisfyAllPredicates ==
    pc \in {"filtered", "selected"} =>
        \A i \in 1..Len(filtered) :
            /\ filtered[i].cooking_time <= max_cooking_time
            /\ lower(filtered[i].meal_type) = lower(meal_type)
            /\ lower(filtered[i].cuisine) = lower(cuisine)
            /\ RatLe(RatMul(min_overlap, Int2Rat(100)), filtered[i].ingredient_overlap)

\* C1 witness: a row was kept whose meal_type and cuisine differ from the
\* query's in case only, and another row of the catalog was rejected.
WitnessFilterKeptAndRejected ==
    /\ pc = "filtered"
    /\ Len(filtered) = 1
    /\ Len(recipes_df) = 2
    /\ filtered[1].meal_type # meal_type
    /\ filtered[1].cuisine # cuisine
    /\ min_overlap = Rat(6, 10)

FilteredSortedDescending ==
    pc \in {"filtered", "selected"} =>
        \A i \in 1..(Len(filtered) - 1) :
            RatLe(filtered[i + 1].ingredient_overlap, filtered[i].ingredient_overlap)

\* C8 witness: the catalog's second row has the higher overlap and comes first.
WitnessReordered ==
    /\ pc = "filtered"
    /\ Len(filtered) = 2
    /\ Len(recipes_df) = 2
    /\ filtered[1].recipe_name = recipes_df[2].recipe_name
    /\ filtered[2].recipe_name = recipes_df[1].recipe_name
    /\ ~RatLe(filtered[1].ingredient_overlap, filtered[2].ingredient_overlap)

-----------------------------------------------------------------------------
(* Properties of the scorer (SpecScore)                                    *)

\* C2: score_recipe rejects every call whose time limit is zero or negative:
\* it raises and returns no score.
NonPositiveLimitRejected ==
    (pc = "scored" /\ cooking_time_limit <= 0) => ret.kind = "raise"

\* C9: for a time limit > 0, score_recipe is non-increasing in cooking_time:
\* the same recipe with any longer cooking time scores no higher.
ScoreNonIncreasingInCookingTime ==
    (pc = "scored" /\ cooking_time_limit > 0) =>
        \A t \in CookingTimes :
            t >= recipe.cooking_time =>
                LET later == score_recipe([recipe EXCEPT !.cooking_time = t],
                                          user_ingredients, cooking_time_limit)
                IN  /\ ret.kind = "return"
                    /\ later.kind = "return"
                    /\ RatLe(later.value, ret.value)

\* C9 witness: a recipe scored within its limit, for which a longer cooking
\* time gives a strictly lower score.
WitnessScoreDecreases ==
    /\ pc = "scored"
    /\ cooking_time_limit > 0
    /\ ret.kind = "return"
    /\ \E t \in CookingTimes :
           /\ t > recipe.cooking_time
           /\ ~RatLe(ret.value, score_recipe([recipe EXCEPT !.cooking_time = t],
                                             user_ingredients, cooking_time_limit).value)

\* C10: calculate_ingredient_overlap of the empty ingredient string returns 0
\* for every user-ingredient list, the string being zero ingredient pieces.
EmptyRecipeHasZeroOverlap ==
    (pc = "overlap" /\ recipe.ingredients = <<>>) =>
        /\ ret = Return(Int2Rat(0))
        /\ Len(recipe_ing_list) = 0

-----------------------------------------------------------------------------
(* Properties of the generation wrapper (SpecGenerate)                     *)

\* C3: when the generation service fails, both functions return None and
\* raise nothing: no call ends in an exception, and a call whose API call
\* raised or whose response text is empty returns None.
GenerationFailureReturnsNone ==
    pc \in {"generated_one", "generated_many"} =>
        /\ ret.kind = "return"
        /\ (response.kind = "raises" \/ response.text = <<>>) => ret.value = PyNone

====
